---------------------------- MODULE Spec2Model ----------------------------
(***************************************************************************)
(* A model of the PDF -> OCR -> Excel pipeline of OCR_Program:             *)
(*   core/ocr_engine.py   OCREngine.extract_roi / extract_table            *)
(*   ui/tab_extract.py    TabExtract.run_conversion and its selectors      *)
(* A text is a sequence of one-character strings; a sheet is a function    *)
(* from the cells <<row, column>> that hold a value to that value (a cell  *)
(* outside the domain reads as None).                                      *)
(***************************************************************************)
EXTENDS Integers, Sequences, FiniteSets, TLC

(***************************************************************************)
(* Bounds of the model.                                                    *)
(***************************************************************************)
\* rows of the template sheet that may hold data before a run
MaxInitRow == 2
\* pages of all selected PDFs together
MaxTotalPages == 2
\* length of a raw recognizer text given to the exclusion filter
MaxTextLen == 3
\* tokens the recognizer returns for one table region
MaxTokens == 3
\* calls of the store methods made by the threads together
MaxUpdates == 2
\* largest day and largest second of the clock read by save_as_new
MaxStamp == 1
\* largest left coordinate of a token
MaxLeft == 1
\* largest coordinate / extent of a region and of a page in the crop check
MaxGeom == 2
\* largest tolerance in the crop check
MaxTol == 1

VARIABLES
    \* ---- TabExtract (ui/tab_extract.py) ----
    rs,          \* roi_mgr.get_set(cmb_set.currentText()): an ROISet, or NoSet
    table_map,   \* the mapping table: one [roi_name, col_text] per row
    pdf_paths,   \* the selected PDFs, each given by its page count
    excel_path,  \* TRUE once a workbook is selected
    template,    \* the sheet stored in the selected workbook file
    ex_set,      \* ex_mgr.list_all() as a set of texts
    pc,          \* position of run_conversion: idle | running | done | error
    msg,         \* the last message box shown
    mapping,     \* run_conversion's mapping dict, a sequence of <<roi_name, col_text>>
    ws,          \* the sheet of the workbook loaded by ExcelWriter
    start_row,   \* new_row as computed before the first page (line 193)
    new_row,     \* the row cursor
    pdf_i,       \* index into pdf_paths of the document being processed
    page_num,    \* page of that document to process next
    page_log,    \* what the last processed page did
    saved,       \* the sheets written by save_as_new, in order
    \* ---- OCREngine crop (core/ocr_engine.py) ----
    crop_in, crop_op, crop_box,
    \* ---- OCREngine.extract_table reconstruction ----
    tokens, table, table_pc,
    \* ---- a single value through extract_roi and the exclusion filter ----
    flt_raw, flt_ex, flt_txt, flt_out, flt_pc,
    \* ---- ROIManager (core/roi_manager.py) ----
    roi_sets,    \* _sets: a dict set_name -> ROISet
    roi_file,    \* roi_sets.json: [readable, sets], sets the list under "sets"
    roi_lock,    \* ROIManager._lock: "free" or the thread holding it
    \* ---- ExclusionManager (core/exclusion_manager.py) ----
    exclude_strings,  \* the set of exclusion texts
    ex_file,     \* exclusions.json: [readable, exclude]
    ex_lock,     \* ExclusionManager._lock: "free" or the thread holding it
    \* ---- the threads calling the stores ----
    w_pc,        \* per thread: idle | locked | modified
    w_op,        \* per thread: the call it is in
    w_hist,      \* per thread: the in-memory state when its call took the
                 \* lock and when it let go of it, and whether _save raised
    applied,     \* the calls that changed the in-memory state, in order
    store0,      \* the in-memory state of both stores at the start
    n_calls,     \* the number of store calls begun
    save_errors, \* the number of _save calls that raised
    \* ---- ExcelWriter.save_as_new (core/excel_writer.py) ----
    sv_template, \* the template path: [dir, name]
    sv_out_dir,  \* the out_dir argument: a directory, or "" for None
    sv_ts,       \* datetime.now() as year, second
    sv_written,  \* the paths of the files written so far
    sv_pc,       \* new | loaded | saved | failed
    \* ---- PDFViewer and TabEdit (ui/pdf_viewer.py, ui/tab_edit.py) ----
    view_items,  \* the ROIItem objects created, in order of creation
    roi_items,   \* PDFViewer.roi_items: a dict key -> ROIItem (its index)
    scale_factor, \* PDFViewer.scale_factor: k stands for 1.2^k
    edit_set,    \* TabEdit.cmb_sets.currentText()
    edit_table,  \* TabEdit.table: one row of cell texts per region
    draw_log,    \* what the last handler of the two tabs did
    n_events     \* the number of handlers of the two tabs run so far

convVars == <<rs, table_map, pdf_paths, excel_path, template, ex_set, pc, msg,
              mapping, ws, start_row, new_row, pdf_i, page_num, page_log, saved>>
cropVars == <<crop_in, crop_op, crop_box>>
tableVars == <<tokens, table, table_pc>>
fltVars == <<flt_raw, flt_ex, flt_txt, flt_out, flt_pc>>
storeVars == <<roi_sets, roi_file, roi_lock, exclude_strings, ex_file, ex_lock,
               w_pc, w_op, w_hist, applied, store0, n_calls,
               save_errors>>
saveVars == <<sv_template, sv_out_dir, sv_ts, sv_written, sv_pc>>
drawVars == <<view_items, roi_items, scale_factor, edit_set, edit_table, draw_log, n_events>>
restVars == <<storeVars, saveVars, drawVars>>
vars == <<convVars, cropVars, tableVars, fltVars, restVars>>

(***************************************************************************)
(* Texts.                                                                  *)
(***************************************************************************)
Whitespace == {" ", "\n"}
Chars == {" ", "\n", "a", "b"}

\* all texts over alphabet cs of length at most n
TextsUpTo(cs, n) == UNION {[1..k -> cs] : k \in 0..n}

Max(S) == CHOOSE m \in S : \A k \in S : k <= m

RECURSIVE LStrip(_)
LStrip(s) ==
    IF s = <<>> THEN s
    ELSE IF Head(s) \in Whitespace THEN LStrip(Tail(s)) ELSE s

RECURSIVE RStrip(_)
RStrip(s) ==
    IF s = <<>> THEN s
    ELSE IF s[Len(s)] \in Whitespace THEN RStrip(SubSeq(s, 1, Len(s) - 1)) ELSE s

\* str.strip()
Strip(s) == RStrip(LStrip(s))

\* Python's `sub in s` for strings
Contains(s, sub) ==
    \E i \in 0..(Len(s) - Len(sub)) : SubSeq(s, i + 1, i + Len(sub)) = sub

\* str.splitlines() for the line break "\n"
RECURSIVE SplitLines(_)
SplitLines(s) ==
    IF s = <<>> THEN <<>>
    ELSE LET brk == {i \in 1..Len(s) : s[i] = "\n"}
         IN IF brk = {} THEN <<s>>
            ELSE LET i == CHOOSE j \in brk : \A k \in brk : j <= k
                 IN <<SubSeq(s, 1, i - 1)>> \o SplitLines(SubSeq(s, i + 1, Len(s)))


(***************************************************************************)
(* Dictionaries (Python dict, insertion ordered) as sequences of           *)
(* <<key, value>> pairs.                                                   *)
(***************************************************************************)
DictHas(d, k) == \E i \in 1..Len(d) : d[i][1] = k

DictGet(d, k) == d[CHOOSE i \in 1..Len(d) : d[i][1] = k][2]

\* d[k] = v: an existing key keeps its place, a new key goes last
DictSet(d, k, v) ==
    IF DictHas(d, k)
    THEN [i \in 1..Len(d) |-> IF d[i][1] = k THEN <<k, v>> ELSE d[i]]
    ELSE Append(d, <<k, v>>)

(***************************************************************************)
(* Sheets (openpyxl worksheet).                                            *)
(***************************************************************************)
\* ws.cell(row=r, column=c).value not in (None, ""): line 189
CellFilled(sheet, r, c) == <<r, c>> \in DOMAIN sheet /\ sheet[<<r, c>>] # <<>>

\* ws.max_row: the highest row holding a cell, 1 for a sheet without cells
MaxRowOf(sheet) ==
    IF DOMAIN sheet = {} THEN 1 ELSE Max({k[1] : k \in DOMAIN sheet})

\* ws.cell(row=r, column=c, value=v)
SetCell(sheet, r, c, v) ==
    [k \in DOMAIN sheet \cup {<<r, c>>} |-> IF k = <<r, c>> THEN v ELSE sheet[k]]

\* the cell writes of a page, applied in the order they were produced
RECURSIVE ApplyWrites(_, _)
ApplyWrites(sheet, writes) ==
    IF writes = <<>> THEN sheet
    ELSE ApplyWrites(SetCell(sheet, writes[1].row, writes[1].col, writes[1].value),
                     Tail(writes))

\* openpyxl.utils.column_index_from_string; 0 stands for its ValueError
ColumnIndex(col) ==
    CASE col = "A" -> 1
      [] col = "B" -> 2
      [] col = "C" -> 3
      [] OTHER -> 0

(***************************************************************************)
(* Regions and the crop of OCREngine.                                      *)
(***************************************************************************)
\* get_set() returning None (no set of the selected name)
NoSet == [set_name |-> "", rois |-> <<>>]
FieldTypes == {"single", "table"}
RoiNames == <<"Name", "Items">>
RoiBoxes == << [x |-> 1, y |-> 1, w |-> 2, h |-> 2, tolerance |-> 1],
               [x |-> 4, y |-> 4, w |-> 2, h |-> 2, tolerance |-> 0] >>

\* core/models.py ROI
MkROI(i, ft) ==
    [name |-> RoiNames[i], x |-> RoiBoxes[i].x, y |-> RoiBoxes[i].y,
     w |-> RoiBoxes[i].w, h |-> RoiBoxes[i].h,
     tolerance |-> RoiBoxes[i].tolerance, field_type |-> ft]

\* the region sets a store may hold: one or two regions of either type
RoiSets ==
    UNION {{[set_name |-> "set", rois |-> [i \in 1..k |-> MkROI(i, f[i])]] :
            f \in [1..k -> FieldTypes]} : k \in 1..Len(RoiNames)}

Min2(a, b) == IF a <= b THEN a ELSE b
Max2(a, b) == IF a >= b THEN a ELSE b

\* extract_roi lines 76-80: the box handed to img.crop
RoiCropBox(x, y, w, h, tolerance, img_w, img_h) ==
    [x0 |-> Max2(0, x - tolerance),
     y0 |-> Max2(0, y - tolerance),
     x1 |-> Min2(img_w, x + w + tolerance),
     y1 |-> Min2(img_h, y + h + tolerance)]

\* extract_table line 105: the box handed to img.crop
TableCropBox(x, y, w, h, img_w, img_h) ==
    [x0 |-> x, y0 |-> y, x1 |-> x + w, y1 |-> y + h]

BoxEmpty(box) == box.x1 <= box.x0 \/ box.y1 <= box.y0

\* the sizes of a rendered page
PageSizes == {[width |-> 8, height |-> 8], [width |-> 3, height |-> 3]}

\* what the recognizer returns for a region (pytesseract.image_to_string)
\* nothing, the one word "b", or two lines "a b" and "a b" with white space
\* around them
OcrRaw == { <<>>, <<"b">>, <<" ", "a", " ", "b", "\n", "a", " ", "b", "\n">> }

(***************************************************************************)
(* OCREngine.extract_roi: the ways one call can end.  raised: an exception *)
(* leaves the call; ocr: the recognizer was invoked; empty: the crop box   *)
(* is empty; text: the returned string.  There is no check of the crop     *)
(* area: on an empty box Pillow's crop, the preprocessing or the           *)
(* recognizer may raise, or the recognizer runs on the empty image and     *)
(* finds no text.  The recognizer may also fail on any image.              *)
(***************************************************************************)
ExtractRoiOutcomes(roi, img) ==
    LET box == RoiCropBox(roi.x, roi.y, roi.w, roi.h, roi.tolerance,
                          img.width, img.height)
        e == BoxEmpty(box)
        fail == {[raised |-> TRUE, ocr |-> TRUE, empty |-> e, text |-> <<>>]}
    IN IF e
       THEN fail \cup {[raised |-> TRUE, ocr |-> FALSE, empty |-> e, text |-> <<>>],
                       [raised |-> FALSE, ocr |-> TRUE, empty |-> e, text |-> <<>>]}
       ELSE fail \cup {[raised |-> FALSE, ocr |-> TRUE, empty |-> e, text |-> Strip(t)] :
                       t \in OcrRaw}

\* FilterValue with "ex == cleaned" in place of "ex in cleaned"
FilterValueExact(txt, exs) ==
    LET cleaned == Strip(txt)
    IN IF \E ex \in exs : cleaned = ex THEN <<>> ELSE cleaned

\* run_conversion lines 216-217: the value kept for a region
FilterValue(txt, exs) ==
    LET cleaned == Strip(txt)
    IN IF \E ex \in exs : Contains(cleaned, ex) THEN <<>> ELSE cleaned


(***************************************************************************)
(* TabExtract: the selections made before a run.                           *)
(***************************************************************************)
\* what the operator may type into the column of the mapping table
ColInputs == {"", "A", "B", "NAME"}

\* the exclusion lists a run may read
ExSets == {{}, {<<"a", " ", "b">>}}

\* the value of a cell that held data before the run
OldValue == <<"x">>

\* the text of a header cell
HeaderName == <<"N", "A", "M", "E">>

\* the template sheets: cells in rows 1..n of columns A and B, each absent
\* (None), empty ("") or holding data
SheetsUpTo(n) ==
    UNION {[d -> {<<>>, OldValue}] : d \in SUBSET ((1..n) \X {1, 2})}

\* the selections of PDFs: page counts of one or more documents, at most
\* n pages together
RECURSIVE SeqSum(_)
SeqSum(q) == IF q = <<>> THEN 0 ELSE Head(q) + SeqSum(Tail(q))

DocsUpTo(n) ==
    {q \in UNION {[1..k -> 1..n] : k \in 1..n} : SeqSum(q) <= n}

\* populate_mapping, lines 114-125
PopulatedMap(set) ==
    [i \in 1..Len(set.rois) |-> [roi_name |-> set.rois[i].name, col_text |-> ""]]

NoPage == [branch |-> "none", row_before |-> 0, writes |-> <<>>, txt |-> <<>>,
           empty |-> {}, ocr |-> {}, raised |-> FALSE]

ConvInit(sets, exsets) ==
    /\ rs \in sets
    /\ table_map = PopulatedMap(rs)
    /\ pdf_paths = <<>>
    /\ excel_path = FALSE
    /\ template = <<>>
    /\ ex_set \in exsets
    /\ pc = "idle"
    /\ msg = ""
    /\ mapping = <<>>
    /\ ws = <<>>
    /\ start_row = 0
    /\ new_row = 0
    /\ pdf_i = 0
    /\ page_num = 0
    /\ page_log = NoPage
    /\ saved = <<>>

\* the operator edits one cell of the mapping table
EditMapping ==
    /\ pc = "idle"
    /\ msg = ""
    /\ \E row \in 1..Len(table_map), col \in ColInputs :
         /\ table_map[row].col_text # col
         /\ table_map' = [table_map EXCEPT ![row].col_text = col]
    /\ UNCHANGED <<rs, pdf_paths, excel_path, template, ex_set, pc, msg, mapping,
                   ws, start_row, new_row, pdf_i, page_num, page_log, saved,
                   cropVars, tableVars, fltVars, restVars>>

\* select_pdf, lines 127-131 (one selection per run is followed)
select_pdf(docs) ==
    /\ pc = "idle"
    /\ msg = ""
    /\ pdf_paths = <<>>
    /\ \E files \in docs : pdf_paths' = files
    /\ UNCHANGED <<rs, table_map, excel_path, template, ex_set, pc, msg, mapping,
                   ws, start_row, new_row, pdf_i, page_num, page_log, saved,
                   cropVars, tableVars, fltVars, restVars>>

\* select_excel, lines 133-137 (one selection per run is followed)
select_excel(sheets) ==
    /\ pc = "idle"
    /\ msg = ""
    /\ ~excel_path
    /\ excel_path' = TRUE
    /\ \E sheet \in sheets : template' = sheet
    /\ UNCHANGED <<rs, table_map, pdf_paths, ex_set, pc, msg, mapping,
                   ws, start_row, new_row, pdf_i, page_num, page_log, saved,
                   cropVars, tableVars, fltVars, restVars>>

(***************************************************************************)
(* TabExtract.run_conversion, in three steps: the checks and the starting  *)
(* row (lines 152-193), one page of the loop (lines 198-223), the save     *)
(* (lines 226-229).  A message box is modal: nothing else happens until    *)
(* it is dismissed.                                                        *)
(***************************************************************************)
\* lines 167-174, once every row has a column: the mapping dict
RECURSIVE BuildMapping(_)
BuildMapping(rows) ==
    IF rows = <<>> THEN <<>>
    ELSE DictSet(BuildMapping(SubSeq(rows, 1, Len(rows) - 1)),
                 rows[Len(rows)].roi_name, rows[Len(rows)].col_text)

\* LastFilledRow taking every existing cell, also an empty string, for data
LastFilledRowAnyCell(sheet, idx) ==
    LET filled == {r \in 1..MaxRowOf(sheet) : <<r, idx>> \in DOMAIN sheet}
    IN IF filled = {} THEN 0 ELSE Max(filled)

\* lines 187-191: the highest row of column idx holding a value, 0 if none
LastFilledRow(sheet, idx) ==
    LET filled == {r \in 1..MaxRowOf(sheet) : CellFilled(sheet, r, idx)}
    IN IF filled = {} THEN 0 ELSE Max(filled)

\* StartRow without the "+ 1" of line 193
StartRowOnLastRow(sheet, m) ==
    LET last_rows == {LastFilledRow(sheet, ColumnIndex(m[i][2])) : i \in 1..Len(m)}
    IN Max2(Max(last_rows \cup {0}), 1)

\* lines 184-193: new_row before the first page
StartRow(sheet, m) ==
    LET last_rows == {LastFilledRow(sheet, ColumnIndex(m[i][2])) : i \in 1..Len(m)}
    IN Max(last_rows \cup {0}) + 1

\* ColumnsValid without the conversion of line 184
ColumnsUnchecked(m) == TRUE

\* line 184: column_index_from_string accepts every column of the mapping
ColumnsValid(m) == \A i \in 1..Len(m) : ColumnIndex(m[i][2]) # 0

Warn(text) ==
    /\ msg' = text
    /\ UNCHANGED <<rs, table_map, pdf_paths, excel_path, template, ex_set, pc,
                   mapping, ws, start_row, new_row, pdf_i, page_num, page_log, saved,
                   cropVars, tableVars, fltVars, restVars>>

run_conversion ==
    /\ pc = "idle"
    /\ msg = ""
    /\ IF rs = NoSet THEN Warn("select an ROI set")
       ELSE IF pdf_paths = <<>> THEN Warn("select a PDF")
       ELSE IF ~excel_path THEN Warn("select a workbook")
       ELSE IF \E row \in 1..Len(table_map) : table_map[row].col_text = ""
       THEN Warn("enter a column for every ROI")
       ELSE LET m == BuildMapping(table_map)
                valid == ColumnsValid(m)
            IN /\ mapping' = m
               /\ ws' = template
               /\ pc' = IF valid THEN "running" ELSE "error"
               /\ start_row' = IF valid THEN StartRow(template, m) ELSE 0
               /\ new_row' = start_row'
               /\ pdf_i' = IF valid THEN 1 ELSE 0
               /\ UNCHANGED <<rs, table_map, pdf_paths, excel_path, template, ex_set,
                              msg, page_num, page_log, saved,
                   cropVars, tableVars, fltVars, restVars>>

\* a message box is closed
Dismiss ==
    /\ msg # ""
    /\ msg' = ""
    /\ UNCHANGED <<rs, table_map, pdf_paths, excel_path, template, ex_set, pc,
                   mapping, ws, start_row, new_row, pdf_i, page_num, page_log, saved,
                   cropVars, tableVars, fltVars, restVars>>

table_rois == SelectSeq(rs.rois, LAMBDA r : r.field_type = "table")

\* line 201
TableOnly == table_rois # <<>> /\ Len(rs.rois) = Len(table_rois)

\* the loop headers of lines 196 and 198: on to the next page or document
NextPage ==
    IF page_num + 1 < pdf_paths[pdf_i]
    THEN pdf_i' = pdf_i /\ page_num' = page_num + 1
    ELSE pdf_i' = pdf_i + 1 /\ page_num' = 0

\* an exception leaves run_conversion: nothing is saved
Abort(log) ==
    /\ pc' = "error"
    /\ page_log' = log
    /\ UNCHANGED <<ws, new_row, pdf_i, page_num>>

\* lines 204-209: one row per line of the text, all in the mapped column
TableWrites(lines, col_idx, row) ==
    [k \in 1..Len(lines) |-> [row |-> row + k - 1, col |-> col_idx, value |-> lines[k]]]

\* lines 200-210: a page of a set made of table regions only
ProcessTablePage ==
    /\ pc = "running"
    /\ pdf_i <= Len(pdf_paths)
    /\ TableOnly
    /\ \E img \in PageSizes :
       \E o \in ExtractRoiOutcomes(table_rois[1], img) :
         LET r == table_rois[1]
             lines == SplitLines(Strip(o.text))
             writes == TableWrites(lines, ColumnIndex(DictGet(mapping, r.name)), new_row)
             log == [branch |-> "table", row_before |-> new_row,
                     writes |-> IF o.raised THEN <<>> ELSE writes,
                     txt |-> IF o.raised THEN <<>> ELSE <<o.text>>,
                     empty |-> IF o.empty THEN {1} ELSE {},
                     ocr |-> IF o.ocr THEN {1} ELSE {},
                     raised |-> o.raised]
             \* line 206 raises ValueError on the first line
             bad_col == lines # <<>> /\ ColumnIndex(DictGet(mapping, r.name)) = 0
         IN IF o.raised THEN Abort(log)
            ELSE IF bad_col
            THEN Abort([log EXCEPT !.writes = <<>>, !.raised = TRUE])
            ELSE /\ ws' = ApplyWrites(ws, writes)
                 /\ new_row' = new_row + Len(lines)
                 /\ page_log' = log
                 /\ NextPage
                 /\ pc' = pc
    /\ UNCHANGED <<rs, table_map, pdf_paths, excel_path, template, ex_set, msg,
                   mapping, start_row, saved, cropVars, tableVars, fltVars, restVars>>

\* lines 213-217: data[roi.name] for the regions in order
RECURSIVE PageData(_, _, _)
PageData(rois, os, exs) ==
    IF rois = <<>> THEN <<>>
    ELSE LET n == Len(rois)
         IN DictSet(PageData(SubSeq(rois, 1, n - 1), SubSeq(os, 1, n - 1), exs),
                    rois[n].name, FilterValue(os[n].text, exs))

\* lines 219-221: one cell per mapping entry, all in the cursor's row
MixedWrites(m, data, row) ==
    [j \in 1..Len(m) |->
        [row |-> row, col |-> ColumnIndex(m[j][2]), value |-> DictGet(data, m[j][1])]]

\* lines 212-223: a page of any other set
ProcessMixedPage ==
    /\ pc = "running"
    /\ pdf_i <= Len(pdf_paths)
    /\ ~TableOnly
    /\ \E img \in PageSizes :
       LET n == Len(rs.rois)
           all == UNION {ExtractRoiOutcomes(rs.rois[i], img) : i \in 1..n}
       IN \E os \in [1..n -> all] :
            /\ \A i \in 1..n : os[i] \in ExtractRoiOutcomes(rs.rois[i], img)
            /\ LET bad == {i \in 1..n : os[i].raised}
                   \* the regions reached before an exception ends the page
                   reached == IF bad = {} THEN 1..n
                              ELSE 1..(CHOOSE i \in bad : \A j \in bad : i <= j)
                   data == PageData(rs.rois, os, ex_set)
                   writes == MixedWrites(mapping, data, new_row)
                   log == [branch |-> "mixed", row_before |-> new_row,
                           writes |-> IF bad = {} THEN writes ELSE <<>>,
                           txt |-> [i \in 1..(Cardinality(reached \ bad)) |-> os[i].text],
                           empty |-> {i \in reached : os[i].empty},
                           ocr |-> {i \in reached : os[i].ocr},
                           raised |-> bad # {}]
                   \* line 220 raises ValueError at the first such entry,
                   \* the cells of the entries before it are written
                   bad_cols == {j \in 1..Len(mapping) : ColumnIndex(mapping[j][2]) = 0}
                   first_bad == CHOOSE j \in bad_cols : \A k \in bad_cols : j <= k
                   done == SubSeq(writes, 1, first_bad - 1)
               IN IF bad # {} THEN Abort(log)
                  ELSE IF bad_cols # {}
                  THEN /\ pc' = "error"
                       /\ ws' = ApplyWrites(ws, done)
                       /\ page_log' = [log EXCEPT !.writes = done, !.raised = TRUE]
                       /\ UNCHANGED <<new_row, pdf_i, page_num>>
                  ELSE /\ ws' = ApplyWrites(ws, writes)
                       /\ new_row' = new_row + 1
                       /\ page_log' = log
                       /\ NextPage
                       /\ pc' = pc
    /\ UNCHANGED <<rs, table_map, pdf_paths, excel_path, template, ex_set, msg,
                   mapping, start_row, saved, cropVars, tableVars, fltVars, restVars>>

\* lines 226-229: save_as_new and the closing message
SaveAsNew ==
    /\ pc = "running"
    /\ pdf_i > Len(pdf_paths)
    /\ saved' = Append(saved, ws)
    /\ pc' = "done"
    /\ msg' = "saved"
    /\ UNCHANGED <<rs, table_map, pdf_paths, excel_path, template, ex_set,
                   mapping, ws, start_row, new_row, pdf_i, page_num, page_log,
                   cropVars, tableVars, fltVars, restVars>>

\* the harness variables of the other checks, at rest
CropIdle == crop_in = <<>> /\ crop_op = "none" /\ crop_box = <<>>
TableIdle == tokens = <<>> /\ table = <<>> /\ table_pc = "none"
FltIdle == flt_raw = <<>> /\ flt_ex = {} /\ flt_txt = <<>> /\ flt_out = <<>> /\ flt_pc = "none"
StoreIdle ==
    /\ roi_sets = <<>> /\ roi_file = <<>> /\ roi_lock = "free"
    /\ exclude_strings = {} /\ ex_file = <<>> /\ ex_lock = "free"
    /\ w_pc = <<>> /\ w_op = <<>> /\ w_hist = <<>> /\ applied = <<>> /\ store0 = <<>>
    /\ n_calls = 0 /\ save_errors = 0
SaveIdle ==
    /\ sv_template = <<>> /\ sv_out_dir = "" /\ sv_ts = <<>>
    /\ sv_written = {} /\ sv_pc = "none"
NoDraw == [op |-> "none", name |-> "", saved |-> FALSE]
DrawIdle ==
    /\ view_items = <<>> /\ roi_items = <<>> /\ scale_factor = 0 /\ edit_set = "" /\ edit_table = <<>>
    /\ draw_log = NoDraw /\ n_events = 0
RestIdle == StoreIdle /\ SaveIdle /\ DrawIdle

\* sheets a run of the full pipeline starts from: a fresh one; column A
\* filled through row 2 and column B through row 1; column A holding only
\* an empty string and column B data below a gap; column B with the header
\* "NAME" in row 1 and data in row 2
SampleSheets ==
    { <<>>,
      [k \in {<<1, 1>>, <<2, 1>>, <<1, 2>>} |-> OldValue],
      [k \in {<<1, 1>>, <<2, 2>>} |-> IF k = <<1, 1>> THEN <<>> ELSE OldValue],
      [k \in {<<1, 2>>, <<2, 2>>} |-> IF k = <<1, 2>> THEN HeaderName ELSE OldValue] }

Init ==
    /\ ConvInit(RoiSets \cup {NoSet}, ExSets)
    /\ CropIdle /\ TableIdle /\ FltIdle /\ RestIdle

Next ==
    \/ EditMapping
    \/ select_pdf(DocsUpTo(MaxTotalPages))
    \/ select_excel(SampleSheets)
    \/ run_conversion
    \/ Dismiss
    \/ ProcessTablePage
    \/ ProcessMixedPage
    \/ SaveAsNew

Spec == Init /\ [][Next]_vars

(***************************************************************************)
(* The start of a run on sheets with any prior content: every template     *)
(* sheet of up to MaxInitRow rows, a one-page document.                    *)
(***************************************************************************)
AppendDocs == {<<1>>}

\* column A filled through row 5, column B through row 3
ExampleSheet ==
    [k \in ((1..5) \X {1}) \cup ((1..3) \X {2}) |-> OldValue]

InitAppend ==
    /\ ConvInit(RoiSets, {{}})
    /\ CropIdle /\ TableIdle /\ FltIdle /\ RestIdle

NextAppend ==
    \/ EditMapping
    \/ select_pdf(AppendDocs)
    \/ select_excel(SheetsUpTo(MaxInitRow) \cup {ExampleSheet})
    \/ run_conversion
    \/ Dismiss
    \/ ProcessTablePage
    \/ ProcessMixedPage
    \/ SaveAsNew

SpecAppend == InitAppend /\ [][NextAppend]_vars

(***************************************************************************)
(* The crop boxes of OCREngine on any region, tolerance and page size.     *)
(***************************************************************************)
CropInputs ==
    [x : (-1)..MaxGeom, y : (-1)..MaxGeom, w : 1..MaxGeom, h : 1..MaxGeom,
     tolerance : 0..MaxTol, page_w : 1..MaxGeom, page_h : 1..MaxGeom]

ConvIdle == ConvInit({NoSet}, {{}})

InitCrop ==
    /\ crop_in \in CropInputs
    /\ crop_op = "none"
    /\ crop_box = <<>>
    /\ ConvIdle /\ TableIdle /\ FltIdle /\ RestIdle

\* extract_roi, lines 74-80
extract_roi_crop ==
    /\ crop_op = "none"
    /\ crop_op' = "extract_roi"
    /\ crop_box' = RoiCropBox(crop_in.x, crop_in.y, crop_in.w, crop_in.h,
                              crop_in.tolerance, crop_in.page_w, crop_in.page_h)
    /\ UNCHANGED <<crop_in, convVars, tableVars, fltVars, restVars>>

\* extract_table, lines 103-105
extract_table_crop ==
    /\ crop_op = "none"
    /\ crop_op' = "extract_table"
    /\ crop_box' = TableCropBox(crop_in.x, crop_in.y, crop_in.w, crop_in.h,
                                crop_in.page_w, crop_in.page_h)
    /\ UNCHANGED <<crop_in, convVars, tableVars, fltVars, restVars>>

NextCrop ==
    \/ extract_roi_crop
    \/ extract_table_crop

SpecCrop == InitCrop /\ [][NextCrop]_vars

(***************************************************************************)
(* OCREngine.extract_table, lines 114-129: the grid built from the tokens  *)
(* of pytesseract.image_to_data.  A token is [text, left, top].            *)
(***************************************************************************)
TokenTexts == { <<" ">>, <<"a">>, <<"b", " ">> }

\* two raw tops one pixel apart
TokenTops == {0, 1}

Tokens == [text : TokenTexts, left : 0..MaxLeft, top : TokenTops]

TokenSeqs == UNION {[1..k -> Tokens] : k \in 0..MaxTokens}

\* lines 117-120: the tokens with text left after strip(), text stripped
KeptTokens(toks) ==
    LET stripped == [i \in 1..Len(toks) |-> [toks[i] EXCEPT !.text = Strip(toks[i].text)]]
    IN SelectSeq(stripped, LAMBDA t : t.text # <<>>)

\* sorted(rows.keys()), line 126
RECURSIVE SortedKeys(_)
SortedKeys(keys) ==
    IF keys = {} THEN <<>>
    ELSE LET least == CHOOSE k \in keys : \A j \in keys : k <= j
         IN <<least>> \o SortedKeys(keys \ {least})

\* sorted(..., key=lambda x: x[0]), line 127: a stable sort by left
RECURSIVE SortedByLeft(_)
SortedByLeft(entries) ==
    IF entries = <<>> THEN <<>>
    ELSE LET n == Len(entries)
             e == entries[n]
             front == SortedByLeft(SubSeq(entries, 1, n - 1))
             \* e goes behind every entry whose left is not larger
             k == Cardinality({i \in 1..Len(front) : front[i].left <= e.left})
         IN SubSeq(front, 1, k) \o <<e>> \o SubSeq(front, k + 1, Len(front))

\* RowCells without the sort of line 127: the cells in the order of arrival
RowCellsUnsorted(kept, top) ==
    LET entries == SelectSeq(kept, LAMBDA t : t.top = top)
    IN [c \in 1..Len(entries) |-> entries[c].text]

\* lines 124 and 127: the cells of the row keyed by top
RowCells(kept, top) ==
    LET entries == SortedByLeft(SelectSeq(kept, LAMBDA t : t.top = top))
    IN [c \in 1..Len(entries) |-> entries[c].text]

\* lines 114-129
Reconstruct(toks) ==
    LET kept == KeptTokens(toks)
        keys == SortedKeys({kept[i].top : i \in 1..Len(kept)})
    IN [r \in 1..Len(keys) |-> RowCells(kept, keys[r])]

InitTable ==
    /\ tokens \in TokenSeqs
    /\ table = <<>>
    /\ table_pc = "tokens"
    /\ ConvIdle /\ CropIdle /\ FltIdle /\ RestIdle

extract_table ==
    /\ table_pc = "tokens"
    /\ table' = Reconstruct(tokens)
    /\ table_pc' = "done"
    /\ UNCHANGED <<tokens, convVars, cropVars, fltVars, restVars>>

NextTable == extract_table

SpecTable == InitTable /\ [][NextTable]_vars

(***************************************************************************)
(* One recognized text through extract_roi's return (line 91) and the      *)
(* exclusion filter of run_conversion (lines 216-217).                     *)
(***************************************************************************)
ExStrings == { <<"a">>, <<"a", "b">>, <<" ">> }

InitFilter ==
    /\ flt_raw \in TextsUpTo(Chars, MaxTextLen)
    /\ flt_ex \in SUBSET ExStrings
    /\ flt_txt = <<>>
    /\ flt_out = <<>>
    /\ flt_pc = "raw"
    /\ ConvIdle /\ CropIdle /\ TableIdle /\ RestIdle

\* extract_roi line 91: return text.strip()
extract_roi_return ==
    /\ flt_pc = "raw"
    /\ flt_txt' = Strip(flt_raw)
    /\ flt_pc' = "ocr"
    /\ UNCHANGED <<flt_raw, flt_ex, flt_out, convVars, cropVars, tableVars, restVars>>

\* run_conversion lines 216-217
filter_value ==
    /\ flt_pc = "ocr"
    /\ flt_out' = FilterValue(flt_txt, flt_ex)
    /\ flt_pc' = "done"
    /\ UNCHANGED <<flt_raw, flt_ex, flt_txt, convVars, cropVars, tableVars, restVars>>

NextFilter ==
    \/ extract_roi_return
    \/ filter_value

SpecFilter == InitFilter /\ [][NextFilter]_vars

(***************************************************************************)
(* ROIManager and ExclusionManager called from two threads.  A call takes  *)
(* the class-level lock ("with self._lock"), changes the in-memory state,  *)
(* calls _save and leaves the with block; _save may raise.                 *)
(***************************************************************************)
Threads == {"t1", "t2"}

\* the ROISets handed to upsert_set
StoreSets ==
    { [set_name |-> "s1", rois |-> <<MkROI(1, "table")>>],
      [set_name |-> "s2", rois |-> <<MkROI(1, "single")>>] }

\* the lists handed to add_many and the texts handed to remove
AddLists == { << <<" ", "a">> >>, << <<"b">>, <<" ">> >> }
RemoveTexts == { <<"a">> }

\* what the stores hold when the program starts: _load has read the files
StoreStarts ==
    { [sets |-> <<>>, exclude |-> {}],
      [sets |-> << <<"s1", [set_name |-> "s1", rois |-> <<MkROI(1, "single")>>]>> >>,
       exclude |-> {<<"a">>}] }

NoCall == [name |-> "none", rs |-> NoSet, key |-> "", items |-> <<>>]
NoHist == [before |-> <<>>, after |-> <<>>, failed |-> FALSE]

\* ROISet.to_dict, models.py lines 43-47
ToDict(set) ==
    [set_name |-> set.set_name, rois |-> [i \in 1..Len(set.rois) |-> set.rois[i]]]

\* ROIManager._save lines 64-68: the document written to roi_sets.json
RoiDump(d) ==
    [readable |-> TRUE, sets |-> [i \in 1..Len(d) |-> ToDict(d[i][2])]]

\* ExclusionManager._save lines 50-54: sorted(exclude_strings), a list
\* without repetition, given by the set of its elements
ExDump(strings) == [readable |-> TRUE, exclude |-> strings]

\* a file whose write was cut short
RoiTorn == [readable |-> FALSE, sets |-> <<>>]
ExTorn == [readable |-> FALSE, exclude |-> {}]

\* del self._sets[name], line 85
DictDel(d, k) == SelectSeq(d, LAMBDA e : e[1] # k)

\* the items added as they come, neither trimmed nor screened for blanks
AddManyRaw(strings, items) == strings \cup {items[i] : i \in 1..Len(items)}

\* add_many line 32: update(s.strip() for s in items if s.strip())
AddMany(strings, items) ==
    strings \cup {Strip(items[i]) : i \in {k \in 1..Len(items) : Strip(items[k]) # <<>>}}

IsRoiCall(op) == op.name \in {"upsert_set", "delete_set"}

\* the in-memory state of the store a call works on
MemOf(op) == IF IsRoiCall(op) THEN roi_sets ELSE exclude_strings

\* the lock taken although another thread holds it
LockIgnored(lock) == TRUE

\* "with self._lock": the lock can be taken when no thread holds it
LockFree(lock) == lock = "free"

InitStore ==
    /\ \E st \in StoreStarts :
         /\ roi_sets = st.sets
         /\ roi_file = RoiDump(st.sets)
         /\ exclude_strings = st.exclude
         /\ ex_file = ExDump(st.exclude)
         /\ store0 = st
    /\ roi_lock = "free"
    /\ ex_lock = "free"
    /\ w_pc = [t \in Threads |-> "idle"]
    /\ w_op = [t \in Threads |-> NoCall]
    /\ w_hist = [t \in Threads |-> NoHist]
    /\ applied = <<>>
    /\ n_calls = 0
    /\ save_errors = 0
    /\ ConvIdle /\ CropIdle /\ TableIdle /\ FltIdle /\ SaveIdle /\ DrawIdle

\* a thread may begin a call
CanCall(t) == w_pc[t] = "idle" /\ n_calls < MaxUpdates

\* ROIManager.upsert_set, line 78: the with block is entered
upsert_set ==
    \E t \in Threads, set \in StoreSets :
        /\ CanCall(t)
        /\ LockFree(roi_lock)
        /\ roi_lock' = t
        /\ w_pc' = [w_pc EXCEPT ![t] = "locked"]
        /\ w_op' = [w_op EXCEPT ![t] = [NoCall EXCEPT !.name = "upsert_set", !.rs = set]]
        /\ w_hist' = [w_hist EXCEPT ![t] = [NoHist EXCEPT !.before = roi_sets]]
        /\ n_calls' = n_calls + 1
        /\ UNCHANGED <<roi_sets, roi_file, exclude_strings, ex_file, ex_lock, applied,
                       store0, save_errors, convVars, cropVars, tableVars, fltVars, saveVars, drawVars>>

\* ROIManager.delete_set, line 83: the with block is entered
delete_set ==
    \E t \in Threads, set \in StoreSets :
        /\ CanCall(t)
        /\ LockFree(roi_lock)
        /\ roi_lock' = t
        /\ w_pc' = [w_pc EXCEPT ![t] = "locked"]
        /\ w_op' = [w_op EXCEPT
                      ![t] = [NoCall EXCEPT !.name = "delete_set", !.key = set.set_name]]
        /\ w_hist' = [w_hist EXCEPT ![t] = [NoHist EXCEPT !.before = roi_sets]]
        /\ n_calls' = n_calls + 1
        /\ UNCHANGED <<roi_sets, roi_file, exclude_strings, ex_file, ex_lock, applied,
                       store0, save_errors, convVars, cropVars, tableVars, fltVars, saveVars, drawVars>>

\* ExclusionManager.add_many, line 31: the with block is entered
add_many ==
    \E t \in Threads, items \in AddLists :
        /\ CanCall(t)
        /\ LockFree(ex_lock)
        /\ ex_lock' = t
        /\ w_pc' = [w_pc EXCEPT ![t] = "locked"]
        /\ w_op' = [w_op EXCEPT ![t] = [NoCall EXCEPT !.name = "add_many", !.items = items]]
        /\ w_hist' = [w_hist EXCEPT ![t] = [NoHist EXCEPT !.before = exclude_strings]]
        /\ n_calls' = n_calls + 1
        /\ UNCHANGED <<roi_sets, roi_file, roi_lock, exclude_strings, ex_file, applied,
                       store0, save_errors, convVars, cropVars, tableVars, fltVars, saveVars, drawVars>>

\* ExclusionManager.remove, line 36: the with block is entered
remove ==
    \E t \in Threads, item \in RemoveTexts :
        /\ CanCall(t)
        /\ LockFree(ex_lock)
        /\ ex_lock' = t
        /\ w_pc' = [w_pc EXCEPT ![t] = "locked"]
        /\ w_op' = [w_op EXCEPT ![t] = [NoCall EXCEPT !.name = "remove", !.items = <<item>>]]
        /\ w_hist' = [w_hist EXCEPT ![t] = [NoHist EXCEPT !.before = exclude_strings]]
        /\ n_calls' = n_calls + 1
        /\ UNCHANGED <<roi_sets, roi_file, roi_lock, exclude_strings, ex_file, applied,
                       store0, save_errors, convVars, cropVars, tableVars, fltVars, saveVars, drawVars>>

\* the with block is left: the lock is released and the call is over
Leave(t, mem, failed) ==
    /\ w_pc' = [w_pc EXCEPT ![t] = "idle"]
    /\ w_hist' = [w_hist EXCEPT ![t].after = mem, ![t].failed = failed]
    /\ IF IsRoiCall(w_op[t])
       THEN roi_lock' = "free" /\ ex_lock' = ex_lock
       ELSE ex_lock' = "free" /\ roi_lock' = roi_lock

\* the change of the in-memory state: roi_manager.py lines 79 and 84-85,
\* exclusion_manager.py lines 32 and 37.  delete_set of a name the store
\* does not hold changes nothing and leaves without a save.
Modify ==
    \E t \in Threads :
        /\ w_pc[t] = "locked"
        /\ LET op == w_op[t]
               absent == op.name = "delete_set" /\ ~DictHas(roi_sets, op.key)
           IN /\ roi_sets' =
                    CASE op.name = "upsert_set" -> DictSet(roi_sets, op.rs.set_name, op.rs)
                      [] op.name = "delete_set" -> DictDel(roi_sets, op.key)
                      [] OTHER -> roi_sets
              /\ exclude_strings' =
                    CASE op.name = "add_many" -> AddMany(exclude_strings, op.items)
                      [] op.name = "remove" -> exclude_strings \ {op.items[1]}
                      [] OTHER -> exclude_strings
              /\ IF absent
                 THEN Leave(t, MemOf(op), FALSE) /\ applied' = applied
                 ELSE /\ w_pc' = [w_pc EXCEPT ![t] = "modified"]
                      /\ applied' = Append(applied, op)
                      /\ UNCHANGED <<w_hist, roi_lock, ex_lock>>
        /\ UNCHANGED <<roi_file, ex_file, w_op, store0, n_calls, save_errors,
                       convVars, cropVars, tableVars, fltVars, saveVars, drawVars>>

\* _save and the end of the with block: roi_manager.py lines 62-68 and 80/86,
\* exclusion_manager.py lines 49-54 and 33/38.  write_text may raise, before
\* the file is opened or after it was truncated.
Save ==
    \E t \in Threads, raised \in BOOLEAN, torn \in BOOLEAN :
        /\ w_pc[t] = "modified"
        /\ torn => raised
        /\ IF IsRoiCall(w_op[t])
           THEN /\ roi_file' = IF ~raised THEN RoiDump(roi_sets)
                               ELSE IF torn THEN RoiTorn ELSE roi_file
                /\ ex_file' = ex_file
           ELSE /\ ex_file' = IF ~raised THEN ExDump(exclude_strings)
                              ELSE IF torn THEN ExTorn ELSE ex_file
                /\ roi_file' = roi_file
        /\ Leave(t, MemOf(w_op[t]), raised)
        /\ save_errors' = IF raised THEN save_errors + 1 ELSE save_errors
        /\ UNCHANGED <<roi_sets, exclude_strings, w_op, applied, store0, n_calls,
                       convVars, cropVars, tableVars, fltVars, saveVars, drawVars>>

NextStore ==
    \/ upsert_set
    \/ delete_set
    \/ add_many
    \/ remove
    \/ Modify
    \/ Save

SpecStore == InitStore /\ [][NextStore]_vars

(***************************************************************************)
(* ExcelWriter: the files written for a template.  A path is [dir, name],  *)
(* the name a sequence of characters.                                      *)
(***************************************************************************)
SaveDirs == {"d1", "d2"}

XlsxExt == <<".", "x", "l", "s", "x">>
XlsExt == <<".", "x", "l", "s">>
XlsmExt == <<".", "x", "l", "s", "m">>

Digit(n) == CASE n = 0 -> "0" [] n = 1 -> "1" [] n = 2 -> "2" [] OTHER -> "3"

\* strftime('%Y%m%d_%H%M%S'), line 93: eight digits, "_", six digits
Stamp(ts) ==
    <<"2", "0", "2", "6", "1", "1", "0", Digit(ts.day)>> \o <<"_">>
        \o <<"0", "0", "0", "0", "0", Digit(ts.sec)>>

\* the names a template file may have: plain, with a dot in the stem, a
\* hidden file; without suffix, .xlsx, .xls, .xlsm, or named like an earlier
\* output of save_as_new
TemplateNames ==
    {base \o tail :
        base \in { <<"t">>, <<"t", ".", "b">>, <<".", "t">> },
        tail \in { <<>>, XlsxExt, XlsExt, XlsmExt,
                   <<"_">> \o Stamp([day |-> 0, sec |-> 0]) \o XlsxExt }}

\* pathlib: the name from its last dot on, if that dot is neither the first
\* nor the last character
SuffixAt(name) ==
    LET dots == {k \in 2..(Len(name) - 1) : name[k] = "."}
        last == {k \in 1..Len(name) : name[k] = "."}
    IN IF last # {} /\ Max(last) \in dots THEN Max(last) ELSE Len(name) + 1

\* Path.suffix and Path.stem
Suffix(name) == SubSeq(name, SuffixAt(name), Len(name))
Stem(name) == SubSeq(name, 1, SuffixAt(name) - 1)

\* NewName without the time stamp
NewNameUnstamped(stem, ts) == stem \o XlsxExt

\* line 95: f"{self.template.stem}_{ts}.xlsx"
NewName(stem, ts) == stem \o <<"_">> \o Stamp(ts) \o XlsxExt

\* lines 92-96: out_dir / new_name, out_dir defaulting to the template's folder
OutPath(template_path, out_dir, ts) ==
    [dir |-> IF out_dir # "" THEN out_dir ELSE template_path.dir,
     name |-> NewName(Stem(template_path.name), ts)]

\* tempfile.NamedTemporaryFile(suffix='.xlsx'), line 48: a file that did
\* not exist before, in the directory for temporary files
TempPath == [dir |-> "tmp", name |-> <<"t", "m", "p">> \o XlsxExt]

InitSave ==
    /\ sv_template \in [dir : SaveDirs, name : TemplateNames]
    /\ sv_out_dir \in SaveDirs \cup {""}
    /\ sv_ts \in [day : 0..MaxStamp, sec : 0..MaxStamp]
    /\ sv_written = {}
    /\ sv_pc = "new"
    /\ ConvIdle /\ CropIdle /\ TableIdle /\ FltIdle /\ StoreIdle /\ DrawIdle

\* ExcelWriter.__init__, lines 29-53: an .xls template is copied into a
\* temporary .xlsx, any other template is only read
ExcelWriter_init ==
    /\ sv_pc = "new"
    /\ sv_pc' = "loaded"
    /\ sv_written' = IF Suffix(sv_template.name) = XlsExt
                     THEN sv_written \cup {TempPath} ELSE sv_written
    /\ UNCHANGED <<sv_template, sv_out_dir, sv_ts,
                   convVars, cropVars, tableVars, fltVars, storeVars, drawVars>>

\* save_as_new, lines 91-98, as called at tab_extract.py line 227
save_as_new ==
    /\ sv_pc = "loaded"
    /\ sv_pc' = "saved"
    /\ sv_written' = sv_written \cup {OutPath(sv_template, sv_out_dir, sv_ts)}
    /\ UNCHANGED <<sv_template, sv_out_dir, sv_ts,
                   convVars, cropVars, tableVars, fltVars, storeVars, drawVars>>

\* an exception ends run_conversion before line 227: nothing more is written
run_fails ==
    /\ sv_pc = "loaded"
    /\ sv_pc' = "failed"
    /\ UNCHANGED <<sv_template, sv_out_dir, sv_ts, sv_written,
                   convVars, cropVars, tableVars, fltVars, storeVars, drawVars>>

NextSave ==
    \/ ExcelWriter_init
    \/ save_as_new
    \/ run_fails

SpecSave == InitSave /\ [][NextSave]_vars

(***************************************************************************)
(* Drawing regions in the viewer (ui/pdf_viewer.py), saving them as a set  *)
(* (ui/tab_coordinate.py) and editing a saved set (ui/tab_edit.py).  All   *)
(* handlers run on the GUI thread.  Names are texts whose characters may   *)
(* be whole pieces such as "ROI_" and "_new".  Scene coordinates are       *)
(* fractions of a pixel, kept as a count of 1/Unit pixels.                 *)
(***************************************************************************)
\* ROIItems created in one session
MaxItems == 3
\* zoom steps above 1.0
MaxZoom == 1
\* handlers run in one session
MaxEvents == 6

\* the smallest rubber band that makes a region must exceed this, line 174
MinDrag == 5
\* ROIDialog's spin box starts at 3, roi_dialog.py line 24
DefaultTolerance == 3

RECURSIVE Pow(_, _)
Pow(b, e) == IF e = 0 THEN 1 ELSE b * Pow(b, e - 1)

\* a scene coordinate of one pixel
Unit == Pow(6, MaxZoom)

\* int() of a non-negative float
IntOf(v) == v \div Unit

\* the rubber band as released: a QRect in viewport coordinates
RubberBands ==
    { [x |-> 1, y |-> 2, w |-> 7, h |-> 8],
      [x |-> 1, y |-> 1, w |-> 5, h |-> 9] }

\* the scroll bars' values
Scrolls == { [x |-> 2, y |-> 1] }

\* QRect.topLeft and QRect.bottomRight: the latter is the last pixel inside
TopLeft(rect) == [x |-> rect.x, y |-> rect.y]
BottomRight(rect) == [x |-> rect.x + rect.w - 1, y |-> rect.y + rect.h - 1]

\* QGraphicsView.mapToScene under the transform of wheelEvent (a scaling by
\* 1.2^k) and the scroll offset
mapToScene(p, scroll, k) ==
    [x |-> (p.x + scroll.x) * Pow(5, k) * Pow(6, MaxZoom - k),
     y |-> (p.y + scroll.y) * Pow(5, k) * Pow(6, MaxZoom - k)]

\* f"ROI_{idx}"
RoiKey(idx) == <<"ROI_", <<"1", "2", "3", "4", "5", "6", "7", "8", "9">>[idx]>>

\* lines 180-183: the first idx whose default name is not a key
FreeIndex(d) ==
    CHOOSE idx \in 1..(Len(d) + 1) :
        /\ ~DictHas(d, RoiKey(idx))
        /\ \A j \in 1..(idx - 1) : DictHas(d, RoiKey(j))

\* what the name field of ROIDialog may hold when it is accepted: the
\* default it was filled with, nothing, or a typed name
DialogTexts(default_name) == { default_name, <<>>, <<" ", "N">> }

\* the field type chosen in ROIDialog
DialogTypes == {"single"}

\* what the rename box may hold
RenameTexts == { <<" ", "N">>, <<" ">> }

\* the tolerance entered from the context menu
MenuTolerances == {0}

MenuActions == {"act_rename", "act_tol", "act_type", "act_del"}

\* the names typed into "save set"
SetNames == {"s1"}

\* PDFViewer.wheelEvent with Ctrl held, lines 204-209
wheelEvent ==
    /\ n_events < MaxEvents
    /\ n_events' = n_events + 1
    /\ \E up \in BOOLEAN :
         /\ IF up THEN scale_factor < MaxZoom ELSE scale_factor > 0
         /\ scale_factor' = IF up THEN scale_factor + 1 ELSE scale_factor - 1
    /\ draw_log' = NoDraw
    /\ UNCHANGED <<view_items, roi_items, edit_set, edit_table,
                   convVars, cropVars, tableVars, fltVars, storeVars, saveVars>>

\* PDFViewer.mouseReleaseEvent, lines 170-200: a region is drawn
mouseReleaseEvent ==
    /\ n_events < MaxEvents
    /\ n_events' = n_events + 1
    /\ Len(view_items) < MaxItems
    /\ \E rect \in RubberBands, scroll \in Scrolls, accepted \in BOOLEAN,
          ftype \in DialogTypes :
       \E typed \in DialogTexts(RoiKey(FreeIndex(roi_items))) :
         LET tl_scene == mapToScene(TopLeft(rect), scroll, scale_factor)
             br_scene == mapToScene(BottomRight(rect), scroll, scale_factor)
             width == br_scene.x - tl_scene.x
             height == br_scene.y - tl_scene.y
             default_name == RoiKey(FreeIndex(roi_items))
             \* ROIDialog.values, roi_dialog.py line 40
             entered == Strip(typed)
             name0 == IF entered = <<>> THEN default_name ELSE entered
             name == IF DictHas(roi_items, name0) THEN Append(name0, "_new") ELSE name0
             item == [name |-> name, tolerance |-> DefaultTolerance,
                      field_type |-> ftype, pos |-> tl_scene,
                      rect |-> [x |-> 0, y |-> 0, w |-> width, h |-> height],
                      in_scene |-> TRUE]
         IN /\ rect.w > MinDrag /\ rect.h > MinDrag
            /\ accepted
            /\ view_items' = Append(view_items, item)
            /\ roi_items' = DictSet(roi_items, name, Len(view_items) + 1)
    /\ draw_log' = NoDraw
    /\ UNCHANGED <<scale_factor, edit_set, edit_table,
                   convVars, cropVars, tableVars, fltVars, storeVars, saveVars>>

\* ROIItem.contextMenuEvent, lines 74-115, on an item of the scene
contextMenuEvent ==
    /\ n_events < MaxEvents
    /\ n_events' = n_events + 1
    /\ \E i \in 1..Len(view_items), sel \in MenuActions, ok \in BOOLEAN,
          new \in RenameTexts, val \in MenuTolerances, choice \in FieldTypes :
         /\ view_items[i].in_scene
         /\ view_items' =
              [view_items EXCEPT ![i] =
                 CASE sel = "act_del" -> [@ EXCEPT !.in_scene = FALSE]
                   [] sel = "act_rename" /\ ok /\ Strip(new) # <<>> ->
                        [@ EXCEPT !.name = Strip(new)]
                   [] sel = "act_tol" /\ ok -> [@ EXCEPT !.tolerance = val]
                   [] sel = "act_type" /\ ok -> [@ EXCEPT !.field_type = choice]
                   [] OTHER -> @]
    /\ draw_log' = NoDraw
    /\ UNCHANGED <<roi_items, scale_factor, edit_set, edit_table,
                   convVars, cropVars, tableVars, fltVars, storeVars, saveVars>>

\* tab_coordinate.py lines 110-122: the ROI made of an item
ExportRoi(item) ==
    [name |-> item.name,
     x |-> IntOf(item.rect.x), y |-> IntOf(item.rect.y),
     w |-> IntOf(item.rect.w), h |-> IntOf(item.rect.h),
     tolerance |-> item.tolerance, field_type |-> item.field_type]

\* tab_coordinate.py lines 108-124: export_rois().values() as a ROISet
ExportSet(name) ==
    [set_name |-> name,
     rois |-> [k \in 1..Len(roi_items) |-> ExportRoi(view_items[roi_items[k][2]])]]

RECURSIVE Str(_)
\* str() of a non-negative int
Str(n) ==
    LET d == <<"0", "1", "2", "3", "4", "5", "6", "7", "8", "9">>
    IN IF n < 10 THEN <<d[n + 1]>> ELSE Str(n \div 10) \o <<d[(n % 10) + 1]>>

DigitValue(c) ==
    CASE c = "0" -> 0 [] c = "1" -> 1 [] c = "2" -> 2 [] c = "3" -> 3 [] c = "4" -> 4
      [] c = "5" -> 5 [] c = "6" -> 6 [] c = "7" -> 7 [] c = "8" -> 8 [] c = "9" -> 9
      [] OTHER -> -1

\* int(text) raises ValueError unless the trimmed text is made of digits
IsInt(text) ==
    /\ Strip(text) # <<>>
    /\ \A i \in 1..Len(Strip(text)) : DigitValue(Strip(text)[i]) >= 0

RECURSIVE DigitsValue(_)
DigitsValue(s) ==
    IF s = <<>> THEN 0
    ELSE 10 * DigitsValue(SubSeq(s, 1, Len(s) - 1)) + DigitValue(s[Len(s)])

\* int(text) of a text that passes
ParseInt(text) == DigitsValue(Strip(text))

\* TabEdit.populate_table, lines 79-91: str(val) in every cell
TableOf(set) ==
    [r \in 1..Len(set.rois) |->
        [name |-> set.rois[r].name,
         x |-> Str(set.rois[r].x), y |-> Str(set.rois[r].y),
         w |-> Str(set.rois[r].w), h |-> Str(set.rois[r].h),
         tolerance |-> Str(set.rois[r].tolerance),
         field_type |-> set.rois[r].field_type]]

\* TabEdit.refresh_sets, lines 65-74, run by the signal sets_updated
\* (main_window.py line 56): the combo box keeps its text if the store
\* still lists it, and the table is filled only if there was no text
RefreshedSet(sets) ==
    IF DictHas(sets, edit_set) THEN edit_set
    ELSE IF sets = <<>> THEN "" ELSE sets[1][1]

RefreshedTable(sets) ==
    IF edit_set = "" /\ sets # <<>> THEN TableOf(sets[1][2]) ELSE edit_table

\* TabCoordinate.on_save_set, lines 99-129, with ROIManager.upsert_set and
\* _save.  When _save raises the handler ends there: no signal is sent.
on_save_set ==
    /\ n_events < MaxEvents
    /\ n_events' = n_events + 1
    /\ \E name \in SetNames, raised \in BOOLEAN, torn \in BOOLEAN :
         LET sets == DictSet(roi_sets, name, ExportSet(name))
         IN /\ torn => raised
            /\ roi_sets' = sets
            /\ roi_file' = IF ~raised THEN RoiDump(sets)
                           ELSE IF torn THEN RoiTorn ELSE roi_file
            /\ edit_set' = IF raised THEN edit_set ELSE RefreshedSet(sets)
            /\ edit_table' = IF raised THEN edit_table ELSE RefreshedTable(sets)
            /\ draw_log' = [op |-> "on_save_set", name |-> name, saved |-> ~raised]
    /\ UNCHANGED <<view_items, roi_items, scale_factor,
                   roi_lock, exclude_strings, ex_file, ex_lock, w_pc, w_op, w_hist,
                   applied, store0, n_calls, save_errors,
                   convVars, cropVars, tableVars, fltVars, saveVars>>

\* the cells the user retypes in the table of TabEdit
CellEdits ==
    { [col |-> "name", text |-> <<" ", "N">>],
      [col |-> "x", text |-> <<" ", "7">>],
      [col |-> "w", text |-> <<"N">>] }

\* a cell of TabEdit.table is edited in place
edit_cell ==
    /\ n_events < MaxEvents
    /\ n_events' = n_events + 1
    /\ \E r \in 1..Len(edit_table), e \in CellEdits :
         edit_table' =
            [edit_table EXCEPT ![r] =
               CASE e.col = "name" -> [@ EXCEPT !.name = e.text]
                 [] e.col = "x" -> [@ EXCEPT !.x = e.text]
                 [] OTHER -> [@ EXCEPT !.w = e.text]]
    /\ draw_log' = NoDraw
    /\ UNCHANGED <<view_items, roi_items, scale_factor, edit_set,
                   convVars, cropVars, tableVars, fltVars, storeVars, saveVars>>

\* TabEdit.delete_selected, lines 130-138, with one row selected
delete_selected ==
    /\ n_events < MaxEvents
    /\ n_events' = n_events + 1
    /\ \E r \in 1..Len(edit_table) :
         edit_table' = SubSeq(edit_table, 1, r - 1)
                          \o SubSeq(edit_table, r + 1, Len(edit_table))
    /\ draw_log' = NoDraw
    /\ UNCHANGED <<view_items, roi_items, scale_factor, edit_set,
                   convVars, cropVars, tableVars, fltVars, storeVars, saveVars>>

\* lines 102-103: the trimmed names of the table's rows
RowNames == [r \in 1..Len(edit_table) |-> Strip(edit_table[r].name)]

\* line 104: len(names) != len(set(names))
DuplicateNames ==
    Cardinality({RowNames[r] : r \in 1..Len(RowNames)}) # Len(RowNames)

\* lines 110-122: a row whose numbers do not parse
BadRow(row) ==
    ~(IsInt(row.x) /\ IsInt(row.y) /\ IsInt(row.w) /\ IsInt(row.h)
        /\ IsInt(row.tolerance))

\* lines 111-118: the ROI of a row
RowRoi(row) ==
    [name |-> Strip(row.name),
     x |-> ParseInt(row.x), y |-> ParseInt(row.y),
     w |-> ParseInt(row.w), h |-> ParseInt(row.h),
     tolerance |-> ParseInt(row.tolerance), field_type |-> row.field_type]

\* TabEdit.apply_changes, lines 96-125, with ROIManager.upsert_set and _save
apply_changes ==
    /\ n_events < MaxEvents
    /\ n_events' = n_events + 1
    /\ edit_set # ""
    /\ \E raised \in BOOLEAN, torn \in BOOLEAN :
         LET rejected == DuplicateNames \/ \E r \in 1..Len(edit_table) : BadRow(edit_table[r])
             set == [set_name |-> edit_set,
                     rois |-> [r \in 1..Len(edit_table) |-> RowRoi(edit_table[r])]]
             sets == DictSet(roi_sets, edit_set, set)
         IN /\ torn => raised
            /\ rejected => ~raised
            /\ roi_sets' = IF rejected THEN roi_sets ELSE sets
            /\ roi_file' = IF rejected THEN roi_file
                           ELSE IF ~raised THEN RoiDump(sets)
                           ELSE IF torn THEN RoiTorn ELSE roi_file
            /\ draw_log' = [op |-> "apply_changes", name |-> edit_set,
                            saved |-> ~rejected /\ ~raised]
    /\ UNCHANGED <<view_items, roi_items, scale_factor, edit_set, edit_table,
                   roi_lock, exclude_strings, ex_file, ex_lock, w_pc, w_op, w_hist,
                   applied, store0, n_calls, save_errors,
                   convVars, cropVars, tableVars, fltVars, saveVars>>

\* the program starts with no set stored, no region drawn, zoom 1.0
InitDraw ==
    /\ view_items = <<>> /\ roi_items = <<>> /\ scale_factor = 0
    /\ edit_set = "" /\ edit_table = <<>> /\ draw_log = NoDraw /\ n_events = 0
    /\ roi_sets = <<>> /\ roi_file = RoiDump(<<>>) /\ roi_lock = "free"
    /\ exclude_strings = {} /\ ex_file = <<>> /\ ex_lock = "free"
    /\ w_pc = <<>> /\ w_op = <<>> /\ w_hist = <<>> /\ applied = <<>> /\ store0 = <<>>
    /\ n_calls = 0 /\ save_errors = 0
    /\ ConvIdle /\ CropIdle /\ TableIdle /\ FltIdle /\ SaveIdle

NextDraw ==
    \/ wheelEvent
    \/ mouseReleaseEvent
    \/ contextMenuEvent
    \/ on_save_set
    \/ edit_cell
    \/ delete_selected
    \/ apply_changes

SpecDraw == InitDraw /\ [][NextDraw]_vars

(***************************************************************************)
(* The claims.                                                             *)
(***************************************************************************)
\* the columns the mapping of the run names
MappedCols == {ColumnIndex(mapping[i][2]) : i \in 1..Len(mapping)}

\* the highest row of column c in which the sheet holds a value other than
\* the empty string, 0 if there is none
PriorLast(sheet, c) ==
    LET data == {cell \in DOMAIN sheet : cell[2] = c /\ sheet[cell] # <<>>}
    IN IF data = {} THEN 0 ELSE Max({cell[1] : cell \in data})

PriorLastMapped == Max({PriorLast(template, c) : c \in MappedCols} \cup {0})

\* C1: every cell write of a run goes to a row strictly above the last
\* non-empty row any mapped column had before the run, so no cell of a mapped
\* column that held a value before the run is changed, in the loaded sheet or
\* in a saved one.
C1_AppendOnly ==
    pc # "idle" =>
      /\ \A k \in 1..Len(page_log.writes) : page_log.writes[k].row > PriorLastMapped
      /\ \A sheet \in {ws} \cup {saved[k] : k \in 1..Len(saved)} :
           \A cell \in DOMAIN template :
             (cell[2] \in MappedCols /\ template[cell] # <<>>) =>
               (cell \in DOMAIN sheet /\ sheet[cell] = template[cell])

\* C1 witness: a page wrote cells into a sheet whose mapped columns held data
C1_Witness ==
    /\ pc = "done"
    /\ PriorLastMapped >= 2
    /\ page_log.writes # <<>>
    /\ saved # <<>>

\* C2: the starting row computed before any page is processed is 1 + the
\* maximum over the mapped columns of the column's highest row holding a
\* non-empty value, a column holding only None or "" counting as 0.
C2_StartRow ==
    (pc \in {"running", "done"} \/ page_log.branch # "none") =>
      start_row = 1 + PriorLastMapped

\* C2 witness: column A filled through row 5 and column B through row 3,
\* both mapped, give starting row 6
C2_Witness ==
    /\ pc = "running"
    /\ template = ExampleSheet
    /\ MappedCols = {1, 2}
    /\ start_row = 6

Range(q) == {q[k] : k \in 1..Len(q)}

\* the words of a line: its maximal runs of characters other than " "
RECURSIVE Words(_)
Words(line) ==
    IF line = <<>> THEN <<>>
    ELSE IF Head(line) = " " THEN Words(Tail(line))
    ELSE LET stops == {k \in 1..Len(line) : line[k] = " "}
             n == IF stops = {} THEN Len(line)
                  ELSE (CHOOSE k \in stops : \A j \in stops : k <= j) - 1
         IN <<SubSeq(line, 1, n)>> \o Words(SubSeq(line, n + 1, Len(line)))

\* the grid a table region's text stands for: one row per line, one cell per word
GridOf(text) ==
    LET lines == SplitLines(text) IN [r \in 1..Len(lines) |-> Words(lines[r])]

\* a page has been processed to its end
PageDone == page_log.branch # "none" /\ ~page_log.raised

\* the regions of the set whose text the last page read
PageRois == 1..Len(page_log.txt)

PageTables == {i \in PageRois : rs.rois[i].field_type = "table"}

\* the height of the tallest table the last page read, 0 without a table
TallestTable == Max({Len(GridOf(page_log.txt[i])) : i \in PageTables} \cup {0})

\* the cells of region i's grid, placed from row n and the region's column on
GridWrites(i, n) ==
    LET grid == GridOf(page_log.txt[i])
        K == ColumnIndex(DictGet(mapping, rs.rois[i].name))
    IN {[row |-> n + r - 1, col |-> K + c - 1, value |-> grid[r][c]] :
          <<r, c>> \in {rc \in (1..Len(grid)) \X (1..4) : rc[2] <= Len(grid[rc[1]])}}

\* C3: after each page the row cursor has advanced by max(height of the
\* page's reconstructed table, 1): by the table height when a table region
\* has at least one row, by exactly 1 otherwise, so by at least 1 for every
\* page, also one whose table region yields no text.
C3_CursorAdvance ==
    PageDone => new_row = page_log.row_before + Max2(TallestTable, 1)

\* C4: a table region whose grid has R rows, mapped to column K with the
\* cursor at row n, is written one cell per grid cell at
\* (n + row offset, K + column offset), and R >= 1 rows leave the cursor at n + R.
C4_TableGridCells ==
    (PageDone /\ page_log.branch = "table") =>
      /\ GridWrites(1, page_log.row_before) \subseteq Range(page_log.writes)
      /\ TallestTable >= 1 => new_row = page_log.row_before + TallestTable

\* C5: on a page of a set mixing single and table regions all regions share
\* one row block as high as the tallest table: a single region's value is
\* written in the cursor's row, a table region's grid cell by cell from that
\* row on, and the cursor moves past the block.
C5_SharedRowBlock ==
    (PageDone /\ page_log.branch = "mixed" /\ PageTables # {} /\ ex_set = {}) =>
      /\ \A i \in PageRois \ PageTables :
           [row |-> page_log.row_before,
            col |-> ColumnIndex(DictGet(mapping, rs.rois[i].name)),
            value |-> page_log.txt[i]] \in Range(page_log.writes)
      /\ \A i \in PageTables :
           GridWrites(i, page_log.row_before) \subseteq Range(page_log.writes)
      /\ new_row = page_log.row_before + Max2(TallestTable, 1)

\* C7: a region whose clamped crop area is empty is taken as "no text": no
\* error is raised, the recognizer is not invoked for it, an empty value is
\* recorded and the run goes on.
C7_EmptyCropIsNoText ==
    \A i \in page_log.empty :
      /\ ~page_log.raised
      /\ pc # "error"
      /\ i \notin page_log.ocr
      /\ i \in PageRois /\ page_log.txt[i] = <<>>


\* C6: for every region (x, y, w, h), tolerance t >= 0 and page size, the
\* crop rectangle of a region is x0 = max(0, x - t), y0 = max(0, y - t),
\* x1 = min(page_w, x + w + t), y1 = min(page_h, y + h + t); it never
\* extends past the page bounds and its width is
\* min(page_w, x + w + t) - max(0, x - t).
C6_CropClamped ==
    crop_op # "none" =>
        LET r == crop_in
            lo_x == IF r.x - r.tolerance > 0 THEN r.x - r.tolerance ELSE 0
            lo_y == IF r.y - r.tolerance > 0 THEN r.y - r.tolerance ELSE 0
            hi_x == IF r.x + r.w + r.tolerance < r.page_w
                    THEN r.x + r.w + r.tolerance ELSE r.page_w
            hi_y == IF r.y + r.h + r.tolerance < r.page_h
                    THEN r.y + r.h + r.tolerance ELSE r.page_h
        IN /\ crop_box = [x0 |-> lo_x, y0 |-> lo_y, x1 |-> hi_x, y1 |-> hi_y]
           /\ 0 <= crop_box.x0 /\ crop_box.x1 <= r.page_w
           /\ 0 <= crop_box.y0 /\ crop_box.y1 <= r.page_h
           /\ crop_box.x1 - crop_box.x0 = hi_x - lo_x

\* C8: table reconstruction is invariant to the order of the input tokens:
\* every permutation of the token sequence, also of one with two tokens
\* that share the same top and the same left, reconstructs to the identical
\* grid.
C8_OrderInvariant ==
    table_pc = "done" =>
        \A p \in Permutations(1..Len(tokens)) :
            Reconstruct([i \in 1..Len(tokens) |-> tokens[p[i]]]) = table

\* The text that is left of t when the whitespace at both ends is removed.
Trimmed(t) ==
    IF \A k \in 1..Len(t) : t[k] \in Whitespace THEN <<>>
    ELSE LET first == CHOOSE i \in 1..Len(t) :
                          /\ t[i] \notin Whitespace
                          /\ \A k \in 1..(i - 1) : t[k] \in Whitespace
             last == CHOOSE j \in 1..Len(t) :
                         /\ t[j] \notin Whitespace
                         /\ \A k \in (j + 1)..Len(t) : t[k] \in Whitespace
         IN [k \in 1..(last - first + 1) |-> t[first + k - 1]]

\* The indices of the tokens whose trimmed text is not empty.
NonBlank == {i \in 1..Len(tokens) : Trimmed(tokens[i].text) # <<>>}

NonBlankTops == {tokens[i].top : i \in NonBlank}

\* The r-th smallest top of the non-blank tokens.
TopOfRow(r) ==
    CHOOSE t \in NonBlankTops : Cardinality({u \in NonBlankTops : u <= t}) = r

\* C9: table reconstruction discards every token whose trimmed text is
\* empty, puts two remaining tokens in the same row exactly when their raw
\* top values are equal, orders the rows by ascending top and the strings
\* within a row by ascending left, so every non-empty token appears exactly
\* once in the grid and no row is empty; a token sequence that is empty or
\* has only blank tokens yields a grid with no rows.
C9_GridShape ==
    table_pc = "done" =>
        /\ Len(table) = Cardinality(NonBlankTops)
        /\ NonBlank = {} => table = <<>>
        /\ \A r \in 1..Len(table) :
              LET members == {i \in NonBlank : tokens[i].top = TopOfRow(r)}
                  n == Len(table[r])
              IN /\ n > 0
                 /\ n = Cardinality(members)
                 /\ \E f \in [1..n -> members] :
                       /\ \A c, d \in 1..n : c # d => f[c] # f[d]
                       /\ \A c \in 1..n : table[r][c] = Trimmed(tokens[f[c]].text)
                       /\ \A c, d \in 1..n :
                             c < d => tokens[f[c]].left <= tokens[f[d]].left

C9_Witness ==
    /\ table_pc = "done"
    /\ Len(tokens) = 3
    /\ tokens[1].text = <<" ">>
    /\ tokens[2].top = tokens[3].top
    /\ tokens[2].left > tokens[3].left
    /\ tokens[2].text # tokens[3].text
    /\ Len(table) = 1
    /\ table[1] = <<Trimmed(tokens[3].text), Trimmed(tokens[2].text)>>

\* s holds sub as a run of consecutive characters.
HasSubstring(s, sub) ==
    \E i \in 0..Len(s) : \E j \in i..Len(s) :
        /\ j - i = Len(sub)
        /\ \A k \in 1..Len(sub) : s[i + k] = sub[k]

\* C10: for a single-field value the exclusion filter returns the empty
\* string if the trimmed value contains any string of the exclusion set as
\* a substring, and the trimmed value unchanged otherwise; with an empty
\* exclusion set every value passes through unchanged.
C10_ExclusionFilter ==
    flt_pc = "done" =>
        /\ (\E ex \in flt_ex : HasSubstring(Trimmed(flt_raw), ex))
              => flt_out = <<>>
        /\ ~(\E ex \in flt_ex : HasSubstring(Trimmed(flt_raw), ex))
              => flt_out = Trimmed(flt_raw)
        /\ flt_ex = {} => flt_out = flt_txt

C10_Witness ==
    /\ flt_pc = "done"
    /\ flt_raw = <<" ", "a", "b">>
    /\ flt_ex = {<<"a">>}
    /\ flt_txt = <<"a", "b">>
    /\ flt_out = <<>>


\* An exclusion rule in the sense of core/models.py ExclusionRule: the text
\* of the exclusion list, aimed at the first region, linked to the second.
CascadeRule ==
    [target_field |-> RoiNames[1], exclude_text |-> <<"a", " ", "b">>,
     linked_fields |-> {RoiNames[2]}]

\* the value the last page wrote for the region of the given name
WrittenFor(name) ==
    {page_log.writes[j].value :
        j \in {k \in 1..Len(page_log.writes) : mapping[k][1] = name}}

\* C11: exclusion cascades to linked fields: when the rule triggers on its
\* target field, the values of the linked fields of the same page are set
\* to empty as well, even if they do not match themselves.
C11_LinkedCascade ==
    (/\ PageDone /\ page_log.branch = "mixed"
     /\ Len(rs.rois) = 2
     /\ CascadeRule.exclude_text \in ex_set
     /\ Contains(page_log.txt[1], CascadeRule.exclude_text)) =>
        /\ WrittenFor(CascadeRule.target_field) = {<<>>}
        /\ \A f \in CascadeRule.linked_fields : WrittenFor(f) = {<<>>}

\* the writes of the last page that come from a table region
TableRegionWrites ==
    {k \in 1..Len(page_log.writes) :
        \/ page_log.branch = "table"
        \/ /\ page_log.branch = "mixed"
           /\ \E i \in 1..Len(rs.rois) :
                rs.rois[i].name = mapping[k][1] /\ rs.rois[i].field_type = "table"}

\* C12: table-region values are filtered with the substring rule of single
\* fields: no value written to the sheet from a table region contains a
\* member of the exclusion set, also when the set has table regions only.
C12_TableCellsFiltered ==
    PageDone =>
        \A k \in TableRegionWrites : \A ex \in ex_set :
            ~Contains(page_log.writes[k].value, ex)

\* the run has a configuration error: no region set of the selected name, or
\* a mapped column that is no column of a sheet
ConfigError ==
    \/ msg = "select an ROI set"
    \/ pc = "error" /\ \E i \in 1..Len(mapping) : ColumnIndex(mapping[i][2]) = 0

\* C13: a configuration error (no region set, or a target column that
\* resolves to no valid column index) ends the run before any region is
\* recognized and before any cell is written: the sheet is as it was loaded,
\* no page was read and nothing was saved.
C13_ConfigErrorFirst ==
    ConfigError =>
        /\ ws \in {<<>>, template}
        /\ page_log = NoPage
        /\ saved = <<>>

\* C13 witness: a set with two regions, a document and a sheet holding data
\* are selected, one column is a name that is no column, and the run ended
C13_Witness ==
    /\ pc = "error"
    /\ Len(mapping) = 2
    /\ mapping[1][2] = "A" /\ mapping[2][2] = "NAME"
    /\ pdf_paths # <<>>
    /\ template # <<>>
    /\ ws = template

\* the characters of what the operator typed into the mapping table
TextOf(col_text) ==
    CASE col_text = "NAME" -> <<"N", "A", "M", "E">>
      [] col_text = "A" -> <<"A">>
      [] col_text = "B" -> <<"B">>
      [] OTHER -> <<>>

\* the columns whose cell in the header row (row 1) holds the given text
HeaderCols(sheet, text) ==
    {c \in {1, 2} : <<1, c>> \in DOMAIN sheet /\ sheet[<<1, c>>] = text}

\* C14: a mapping entry may be a column letter or a header name: an entry
\* that is no column letter but occurs in the header row resolves to that
\* header's column, the run goes on and the region's value is written there.
C14_HeaderNameResolves ==
    \A i \in 1..Len(mapping) :
        LET cols == HeaderCols(template, TextOf(mapping[i][2]))
        IN (ColumnIndex(mapping[i][2]) = 0 /\ cols # {}) =>
              /\ pc # "error"
              /\ (PageDone /\ page_log.branch = "mixed") =>
                    page_log.writes[i].col \in cols

\* C15: a region whose target column is left empty is skipped and is no
\* error: as long as some region has a column the run is not refused for
\* the missing one, and a page writes nothing for a region without a column.
C15_UnmappedSkipped ==
    /\ msg = "enter a column for every ROI" =>
          \A row \in 1..Len(table_map) : table_map[row].col_text = ""
    /\ PageDone =>
          \A row \in 1..Len(table_map) :
              table_map[row].col_text = "" =>
                  ~DictHas(mapping, table_map[row].roi_name)

\* C16: a failure of the recognizer on one region of one page does not end
\* the batch: the page is completed with a value for every mapped region,
\* the cursor moves on and the run stays on its way to the save.
C16_FailureDoesNotAbort ==
    page_log.raised =>
        /\ pc \in {"running", "done"}
        /\ page_log.writes # <<>>
        /\ new_row > page_log.row_before

\* C17: when the persist step of a store update fails (upsert_set,
\* delete_set, add_many, remove), the in-memory state of the store after the
\* failed call equals the state before it, and the lock is released.
C17_FailedSaveRestores ==
    \A t \in Threads :
        (w_pc[t] = "idle" /\ w_hist[t].failed) =>
            /\ w_hist[t].after = w_hist[t].before
            /\ roi_lock # t /\ ex_lock # t

\* thread t is inside the with block of a call on the store of that kind
InSection(t, roi) == w_pc[t] # "idle" /\ IsRoiCall(w_op[t]) = roi

\* the applied calls that set or delete the region set of the given name
TouchesSet(name) ==
    {k \in 1..Len(applied) :
        \/ applied[k].name = "upsert_set" /\ applied[k].rs.set_name = name
        \/ applied[k].name = "delete_set" /\ applied[k].key = name}

\* the applied calls that add or remove the given exclusion text
TouchesText(text) ==
    {k \in 1..Len(applied) :
        \/ /\ applied[k].name = "add_many"
           /\ \E i \in 1..Len(applied[k].items) : Trimmed(applied[k].items[i]) = text
        \/ applied[k].name = "remove" /\ applied[k].items[1] = text}

\* the in-memory state is the start state with every applied call's effect
ReflectsApplied ==
    /\ \A name \in {"s1", "s2"} :
          LET ks == TouchesSet(name)
              held == \E i \in 1..Len(roi_sets) : roi_sets[i][1] = name
          IN IF ks = {}
             THEN held = (\E i \in 1..Len(store0.sets) : store0.sets[i][1] = name)
             ELSE IF applied[Max(ks)].name = "upsert_set"
             THEN \E i \in 1..Len(roi_sets) : roi_sets[i] = <<name, applied[Max(ks)].rs>>
             ELSE ~held
    /\ \A text \in {<<"a">>, <<"b">>} :
          LET ks == TouchesText(text)
          IN IF ks = {}
             THEN (text \in exclude_strings) = (text \in store0.exclude)
             ELSE (text \in exclude_strings) = (applied[Max(ks)].name = "add_many")

\* the files hold what the stores hold in memory
FilesMatchMemory ==
    /\ roi_file.readable
    /\ Len(roi_file.sets) = Len(roi_sets)
    /\ \A i \in 1..Len(roi_sets) :
          /\ roi_file.sets[i].set_name = roi_sets[i][1]
          /\ roi_file.sets[i].rois = roi_sets[i][2].rois
    /\ ex_file.readable
    /\ ex_file.exclude = exclude_strings

C18_TemplateNotWritten ==
    /\ \A path \in sv_written :
          path.dir # sv_template.dir \/ path.name # sv_template.name
    /\ sv_pc = "saved" =>
          \E path \in sv_written :
              /\ path.name # sv_template.name
              /\ path.dir = (IF sv_out_dir = "" THEN sv_template.dir ELSE sv_out_dir)
              /\ Len(path.name) > Len(XlsxExt)
              /\ SubSeq(path.name, Len(path.name) - Len(XlsxExt) + 1, Len(path.name))
                    = XlsxExt

\* C18 witness: saved next to a template that is itself named like an output
\* of the same second
C18_Witness ==
    /\ sv_pc = "saved"
    /\ sv_out_dir = ""
    /\ sv_ts = [day |-> 0, sec |-> 0]
    /\ sv_template.name = <<"t", "_">> \o Stamp(sv_ts) \o XlsxExt
    /\ Cardinality(sv_written) = 1

\* C19: the selected region set is applied in full to every page of every
\* document: on each page that is processed every region of the set is
\* recognized and its value is handed to placement, also when the set has
\* two or more regions that are all of type table.
C19_AllRegionsEveryPage ==
    PageDone =>
        /\ page_log.ocr = 1..Len(rs.rois)
        /\ Len(page_log.txt) = Len(rs.rois)

\* the cells the last page wrote, one per write
CellOf(w) == <<w.row, w.col>>

\* C22: within one run each sheet cell is written at most once: the rows a
\* page writes lie at or after the cursor it started from and before the
\* cursor it leaves (so a later page writes strictly greater rows), and
\* within one page no two regions write to the same cell, also when the
\* mapping assigns the same column to two regions.
C22_CellWrittenOnce ==
    PageDone =>
        /\ \A j \in 1..Len(page_log.writes) :
             /\ page_log.writes[j].row >= page_log.row_before
             /\ page_log.writes[j].row < new_row
        /\ \A j, k \in 1..Len(page_log.writes) :
             j # k => CellOf(page_log.writes[j]) # CellOf(page_log.writes[k])

\* a call of remove that has returned, for an item the set did not hold
RemovedAbsent(t) ==
    /\ w_pc[t] = "idle"
    /\ w_op[t].name = "remove"
    /\ w_op[t].items[1] \notin w_hist[t].before

\* C24: after any sequence of add_many and remove calls on an exclusion
\* store that started empty, the set holds no empty or whitespace-only
\* text and every member is trimmed, so the filter of run_conversion blanks
\* a value only for a non-empty member it contains; remove of an absent
\* item leaves the set unchanged.
C24_NoBlankMember ==
    store0.exclude = {} =>
        /\ \A s \in exclude_strings :
             /\ \E i \in 1..Len(s) : s[i] \notin Whitespace
             /\ s[1] \notin Whitespace /\ s[Len(s)] \notin Whitespace
        /\ FilterValue(OldValue, exclude_strings) = <<>> =>
             \E ex \in exclude_strings : ex # <<>> /\ HasSubstring(OldValue, ex)
        /\ \A t \in Threads :
             RemovedAbsent(t) => w_hist[t].after = w_hist[t].before

\* an add_many with a blank and an untrimmed item was applied to the empty
\* store, and a remove of an absent item has returned
C24_Witness ==
    /\ store0.exclude = {}
    /\ exclude_strings # {}
    /\ \E i \in 1..Len(applied) :
         /\ applied[i].name = "add_many"
         /\ \E k \in 1..Len(applied[i].items) : Strip(applied[i].items[k]) = <<>>
    /\ \E t \in Threads : RemovedAbsent(t)

\* on_save_set has just persisted the regions of the viewer
JustSaved == draw_log.op = "on_save_set" /\ draw_log.saved

\* the set on_save_set wrote to roi_sets.json
SavedSet ==
    roi_file.sets[CHOOSE i \in 1..Len(roi_file.sets) :
                      roi_file.sets[i].set_name = draw_log.name]

\* no two regions of the set carry the same name
UniqueNames(set) ==
    \A j, k \in 1..Len(set.rois) : j # k => set.rois[j].name # set.rois[k].name

\* C21: region names are unique within a set: after any sequence of
\* drawing regions, renaming a region from its context menu, editing and
\* applying the set table, and saving the set, no persisted region set
\* holds two regions of the same name, and every region drawn and not
\* deleted is present in the saved set.
C21_UniqueNames ==
    /\ roi_file.readable =>
         \A i \in 1..Len(roi_file.sets) : UniqueNames(roi_file.sets[i])
    /\ JustSaved =>
         \A i \in 1..Len(view_items) :
            view_items[i].in_scene =>
               \E k \in 1..Len(roi_items) :
                  /\ roi_items[k][2] = i
                  /\ SavedSet.rois[k].name = view_items[i].name

\* C23: saving a drawn region set preserves geometry: for every region
\* drawn with its top-left corner at scene position (px, py) and size
\* (w, h), the ROI persisted by on_save_set has x = px, y = py and the same
\* w and h, each as a whole number of pixels.
C23_GeometryPreserved ==
    JustSaved =>
        \A k \in 1..Len(roi_items) :
            LET item == view_items[roi_items[k][2]]
            IN /\ SavedSet.rois[k].x = IntOf(item.pos.x)
               /\ SavedSet.rois[k].y = IntOf(item.pos.y)
               /\ SavedSet.rois[k].w = IntOf(item.rect.w)
               /\ SavedSet.rois[k].h = IntOf(item.rect.h)

=============================================================================
